---- MODULE Spec2Model ----
(***************************************************************************)
(* State-machine model of the kukkuu events API (src/events/schema.py):    *)
(* the GraphQL mutations on events, occurrences and enrolments, executed   *)
(* by concurrent request workers against one database.                    *)
(*                                                                         *)
(* Every mutation runs inside transaction.atomic with no row lock          *)
(* (no select_for_update) on the database's default READ COMMITTED level:  *)
(* each query of a handler reads the rows committed at the moment it       *)
(* runs, and the handler's writes become visible at its commit.  The       *)
(* handlers whose claims are about interleavings (enrolOccurrence,         *)
(* publishEvent) are split at their queries; a write and the commit that   *)
(* follows it are one step.  The other handlers are one step each.         *)
(***************************************************************************)
EXTENDS Integers, FiniteSets, Sequences, TLC

\* ------------------------------------------------------------------ bounds
NumProcs == 2          \* concurrent request workers
NumEvents == 2         \* event primary keys the sequence hands out
NumConcEvents == 1     \* events of the store the concurrent workers serve
NumOccurrences == 2    \* occurrence primary keys the sequence hands out
MaxTime == 1           \* the clock runs 0..MaxTime
MaxCapacity == 1       \* capacity_per_occurrence inputs are 0..MaxCapacity
MaxDispatch == 1       \* a publish request is accepted while the event has
                       \* had at most this many notification rounds
ExampleCapacity == 2   \* the capacity of the spec's enrolment example
SlotsPerDay == 2       \* a day has this many times of day

Procs == 1..NumProcs
EventIds == 1..NumEvents
OccurrenceIds == 1..NumOccurrences
Times == 0..MaxTime
Capacities == 0..MaxCapacity

\* ------------------------------------------------------- fixture data
\* Users, children and venues are created by other apps of the project;
\* no mutation of this schema changes them.
Users == {"staff", "anon", "g1", "g2"}           \* the acting users
Guardians == {"g1", "g2", "g3"}                  \* users.models.Guardian
Children == {"c1", "c2", "c3"}
ChildIdInputs == Children \cup {"c0"}            \* "c0": no such child
VenueIds == {"v1"}
VenueIdInputs == VenueIds \cup {"v0"}           \* "v0": no such venue

\* Language codes are sequences of letters.  The values a caller may filter
\* by, and the language stored with each occurrence (no request sets it).
LanguageInputs ==
  {<<"f", "i">>, <<"F", "I">>, <<"F", "i">>, <<"s", "v">>, <<"e", "n">>}
occurrence_language(occ) == IF occ % 2 = 1 THEN <<"f", "i">> ELSE <<"s", "v">>

is_authenticated(user) == user # "anon"

\* Variant of is_staff that admits every logged-in user; C13 tells the two
\* apart.
is_logged_in(user) == user # "anon"

\* staff_member_required
is_staff(user) == user = "staff"

\* children.models: the guardians of a child (g3 has no child)
GuardiansOf(child) ==
  IF child \in {"c1", "c3"} THEN {"g1"} ELSE IF child = "c2" THEN {"g2"} ELSE {}

\* Child.objects.user_can_update(user): the children the user is a guardian of
user_can_update(user) == {c \in Children : user \in GuardiansOf(c)}

\* Variant of GuardiansWithChildren without the filter on the number of
\* children; C28 tells the two apart.
EveryGuardian == Guardians

\* Guardian.objects.annotate(children_count=Count("children"))
\*                 .filter(children_count__gt=0)
GuardiansWithChildren ==
  {g \in Guardians : Cardinality({c \in Children : g \in GuardiansOf(c)}) > 0}

\* An optional input or a nullable column: <<>> is None, <<v>> is the value v.
None == <<>>
Some(v) == <<v>>
Opt(S) == {None} \cup {Some(v) : v \in S}

\* ------------------------------------------------------------ messages
MsgOK == "OK"
MsgPermissionDenied == "You do not have permission to perform this action"
MsgAlreadyJoined == "Child already joined this event"
MsgMaxEnrolments == "Maximum enrolments created"
MsgPastOccurrence == "Cannot join occurrence in the past"
MsgAlreadyPublished == "Event is already published"
MsgNoOccurrence == "Occurrence matching query does not exist."
MsgNoChild == "Child matching query does not exist."
MsgNoEvent == "Event matching query does not exist."
MsgNoVenue == "Venue matching query does not exist."
MsgInternalError == "Internal error"

\* The spec's error kinds (section 7) of the messages above.
ErrorKind(msg) ==
  CASE msg \in {MsgNoOccurrence, MsgNoChild, MsgNoEvent, MsgNoVenue} -> "NOT_FOUND"
    [] msg \in {MsgAlreadyJoined, MsgPastOccurrence, MsgAlreadyPublished} -> "CONFLICT"
    [] msg = MsgMaxEnrolments -> "CAPACITY_EXCEEDED"
    [] msg = MsgPermissionDenied -> "PERMISSION_DENIED"
    [] msg = MsgInternalError -> "INTERNAL"
    [] OTHER -> "SUCCESS"

\* ---------------------------------------------------------------- state
VARIABLES
  events,            \* committed Event rows:
                     \*   id -> [capacity_per_occurrence, published_at, created_at]
  occurrences,       \* committed Occurrence rows: id -> [event, venue, time]
  enrolments,        \* committed Enrolment rows: set of [child, occurrence]
  notifications,     \* <<event, guardian>> -> number of "event published" notifications sent
  now,               \* timezone.now()
  nextEventId,       \* the events primary-key sequence
  nextOccurrenceId,  \* the occurrences primary-key sequence
  proc,              \* per worker: the request it is executing and its position
  last               \* the response being returned to a caller, if any

vars == <<events, occurrences, enrolments, notifications, now,
          nextEventId, nextOccurrenceId, proc, last>>
store == <<events, occurrences, enrolments>>

Idle == [pc |-> "idle"]

\* A response: the request it answers, its message, for a created enrolment
\* the createdAt of the EnrolmentNode returned, and for a query its filters
\* and the rows returned.
Response(op, user, child, target, result) ==
  [op |-> op, user |-> user, child |-> child, target |-> target, result |-> result,
   created_at |-> None, filters |-> None, rows |-> None]

\* no response is on its way to a caller
NoResponse == Response("none", "anon", "c0", 0, "none")

Init ==
  /\ events = << >>
  /\ occurrences = << >>
  /\ enrolments = {}
  /\ notifications = [x \in EventIds \X Guardians |-> 0]
  /\ now = 0
  /\ nextEventId = 1
  /\ nextOccurrenceId = 1
  /\ proc = [p \in Procs |-> Idle]
  /\ last = NoResponse

\* ------------------------------------------------------------- helpers
Without(f, ids) == [x \in DOMAIN f \ ids |-> f[x]]
With(f, id, row) == [x \in DOMAIN f \cup {id} |-> IF x = id THEN row ELSE f[x]]

\* Variant of EnrolmentCount that counts the enrolments of all occurrences of
\* the occurrence's event; C26 tells the two apart.
EnrolmentCountOfEvent(occ) ==
  Cardinality({en \in enrolments :
                 /\ en.occurrence \in DOMAIN occurrences
                 /\ occ \in DOMAIN occurrences
                 /\ occurrences[en.occurrence].event = occurrences[occ].event})

\* occurrence.enrolments.count()
EnrolmentCount(occ) == Cardinality({en \in enrolments : en.occurrence = occ})

\* child.occurrences.filter(event=event).exists()
JoinedEvent(child, event) ==
  \E en \in enrolments :
    /\ en.child = child
    /\ en.occurrence \in DOMAIN occurrences
    /\ occurrences[en.occurrence].event = event

\* a worker returns `result` to its caller
Finish(p, op, user, child, target, result) ==
  /\ proc' = [proc EXCEPT ![p] = Idle]
  /\ last' = Response(op, user, child, target, result)

\* the response reaches the caller
Deliver ==
  /\ last # NoResponse
  /\ last' = NoResponse
  /\ UNCHANGED <<events, occurrences, enrolments, notifications, now,
                 nextEventId, nextOccurrenceId, proc>>

\* login_required, staff_member_required: the request is rejected before
\* the handler reads its input
Denied(p, op, user) == Finish(p, op, user, "c0", 0, MsgPermissionDenied)

\* the created_at field of the Event and Enrolment models: the time at which
\* the row is first saved
auto_now_add == now

Tick ==
  /\ now < MaxTime
  /\ now' = now + 1
  /\ UNCHANGED <<events, occurrences, enrolments, notifications,
                 nextEventId, nextOccurrenceId, proc, last>>

\* ------------------------------------------------------ enrolOccurrence
\* Variant of AlreadyJoined that looks at the target occurrence only; C4
\* tells the two apart.
AlreadyJoinedOccurrence(child, occ, event) ==
  \E en \in enrolments : en.child = child /\ en.occurrence = occ

\* Variant of AlreadyJoined that looks for an enrolment of the child in any
\* event; C27 tells the two apart.
AlreadyJoinedAnywhere(child, occ, event) == \E en \in enrolments : en.child = child

\* validate_enrolment, first check
AlreadyJoined(child, occ, event) == JoinedEvent(child, event)

\* Variant of OccurrenceFull that lets one enrolment more in; C16 tells the
\* two apart.
OccurrenceOverFull(occ, capacity) == EnrolmentCount(occ) > capacity

\* validate_enrolment, second check (the event was loaded by the first check)
OccurrenceFull(occ, capacity) == EnrolmentCount(occ) >= capacity

\* Variant of OccurrenceInPast with the comparison turned round; C6 tells the
\* two apart.
OccurrenceInFuture(time) == time > now

\* Variant of OccurrenceInPast that counts the present as past; C25 tells the
\* two apart.
OccurrenceNotAfterNow(time) == time <= now

\* validate_enrolment, third check (the occurrence was loaded by the handler)
OccurrenceInPast(time) == time < now

\* Variant of EnrolGet that answers a user who is not the guardian of an
\* existing child with a permission error; C7 tells the two apart.
EnrolGetForbidden(p, user, child, occ) ==
  /\ proc[p].pc = "idle"
  /\ IF ~is_authenticated(user)
       THEN Denied(p, "enrol", user)
     ELSE IF occ \notin DOMAIN occurrences
       THEN Finish(p, "enrol", user, child, occ, MsgNoOccurrence)
     ELSE IF child \notin Children
       THEN Finish(p, "enrol", user, child, occ, MsgNoChild)
     ELSE IF child \notin user_can_update(user)
       THEN Finish(p, "enrol", user, child, occ, MsgPermissionDenied)
     ELSE /\ proc' = [proc EXCEPT ![p] =
                [pc |-> "check_joined", op |-> "enrol", user |-> user,
                 child |-> child, occurrence |-> occ,
                 event |-> occurrences[occ].event,
                 time |-> occurrences[occ].time,
                 capacity |-> 0]]
          /\ last' = last
  /\ UNCHANGED <<events, occurrences, enrolments, notifications, now,
                 nextEventId, nextOccurrenceId>>

\* Variant of EnrolGet that finds the occurrences of published events only;
\* C32 tells the two apart.
EnrolGetPublishedOnly(p, user, child, occ) ==
  /\ proc[p].pc = "idle"
  /\ IF ~is_authenticated(user)
       THEN Denied(p, "enrol", user)
     ELSE IF occ \notin DOMAIN occurrences
       THEN Finish(p, "enrol", user, child, occ, MsgNoOccurrence)
     ELSE IF /\ occurrences[occ].event \in DOMAIN events
             /\ events[occurrences[occ].event].published_at = None
       THEN Finish(p, "enrol", user, child, occ, MsgNoOccurrence)
     ELSE IF child \notin user_can_update(user)
       THEN Finish(p, "enrol", user, child, occ, MsgNoChild)
     ELSE /\ proc' = [proc EXCEPT ![p] =
                [pc |-> "check_joined", op |-> "enrol", user |-> user,
                 child |-> child, occurrence |-> occ,
                 event |-> occurrences[occ].event,
                 time |-> occurrences[occ].time,
                 capacity |-> 0]]
          /\ last' = last
  /\ UNCHANGED <<events, occurrences, enrolments, notifications, now,
                 nextEventId, nextOccurrenceId>>

\* Occurrence.objects.get, then Child.objects.user_can_update(user).get
EnrolGet(p, user, child, occ) ==
  /\ proc[p].pc = "idle"
  /\ IF ~is_authenticated(user)
       THEN Denied(p, "enrol", user)
     ELSE IF occ \notin DOMAIN occurrences
       THEN Finish(p, "enrol", user, child, occ, MsgNoOccurrence)
     ELSE IF child \notin user_can_update(user)
       THEN Finish(p, "enrol", user, child, occ, MsgNoChild)
     ELSE /\ proc' = [proc EXCEPT ![p] =
                [pc |-> "check_joined", op |-> "enrol", user |-> user,
                 child |-> child, occurrence |-> occ,
                 event |-> occurrences[occ].event,
                 time |-> occurrences[occ].time,
                 capacity |-> 0]]
          /\ last' = last
  /\ UNCHANGED <<events, occurrences, enrolments, notifications, now,
                 nextEventId, nextOccurrenceId>>

\* Variant of EnrolCheckJoined that tests the occurrence's time before the
\* child's enrolments; C5 tells the two apart.
EnrolCheckTimeFirst(p) ==
  LET r == proc[p] IN
  /\ r.pc = "check_joined"
  /\ IF r.event \notin DOMAIN events
       THEN Finish(p, "enrol", r.user, r.child, r.occurrence, MsgInternalError)
     ELSE IF OccurrenceInPast(r.time)
       THEN Finish(p, "enrol", r.user, r.child, r.occurrence, MsgPastOccurrence)
     ELSE IF AlreadyJoined(r.child, r.occurrence, r.event)
       THEN Finish(p, "enrol", r.user, r.child, r.occurrence, MsgAlreadyJoined)
     ELSE /\ proc' = [proc EXCEPT ![p] =
                [r EXCEPT !.pc = "check_capacity",
                          !.capacity = events[r.event].capacity_per_occurrence]]
          /\ last' = last
  /\ UNCHANGED <<events, occurrences, enrolments, notifications, now,
                 nextEventId, nextOccurrenceId>>

\* occurrence.event is loaded here, by the primary key the occurrence row held
EnrolCheckJoined(p) ==
  LET r == proc[p] IN
  /\ r.pc = "check_joined"
  /\ IF r.event \notin DOMAIN events
       THEN Finish(p, "enrol", r.user, r.child, r.occurrence, MsgInternalError)
     ELSE IF AlreadyJoined(r.child, r.occurrence, r.event)
       THEN Finish(p, "enrol", r.user, r.child, r.occurrence, MsgAlreadyJoined)
     ELSE /\ proc' = [proc EXCEPT ![p] =
                [r EXCEPT !.pc = "check_capacity",
                          !.capacity = events[r.event].capacity_per_occurrence]]
          /\ last' = last
  /\ UNCHANGED <<events, occurrences, enrolments, notifications, now,
                 nextEventId, nextOccurrenceId>>

\* Variant of EnrolCheckCapacity that waits for a place while the occurrence
\* is full; C30 tells the two apart.
EnrolCheckCapacityWaits(p) ==
  LET r == proc[p] IN
  /\ r.pc = "check_capacity"
  /\ ~OccurrenceFull(r.occurrence, r.capacity)
  /\ proc' = [proc EXCEPT ![p] = [r EXCEPT !.pc = "check_time"]]
  /\ last' = last
  /\ UNCHANGED <<events, occurrences, enrolments, notifications, now,
                 nextEventId, nextOccurrenceId>>

EnrolCheckCapacity(p) ==
  LET r == proc[p] IN
  /\ r.pc = "check_capacity"
  /\ IF OccurrenceFull(r.occurrence, r.capacity)
       THEN Finish(p, "enrol", r.user, r.child, r.occurrence, MsgMaxEnrolments)
     ELSE /\ proc' = [proc EXCEPT ![p] = [r EXCEPT !.pc = "check_time"]]
          /\ last' = last
  /\ UNCHANGED <<events, occurrences, enrolments, notifications, now,
                 nextEventId, nextOccurrenceId>>

EnrolCheckTime(p) ==
  LET r == proc[p] IN
  /\ r.pc = "check_time"
  /\ IF OccurrenceInPast(r.time)
       THEN Finish(p, "enrol", r.user, r.child, r.occurrence, MsgPastOccurrence)
     ELSE /\ proc' = [proc EXCEPT ![p] = [r EXCEPT !.pc = "create"]]
          /\ last' = last
  /\ UNCHANGED <<events, occurrences, enrolments, notifications, now,
                 nextEventId, nextOccurrenceId>>

\* The insert violates the row's constraints when the occurrence row is gone
\* or the child already has a row for this occurrence.
InsertRejected(child, occ) ==
  \/ occ \notin DOMAIN occurrences
  \/ \E en \in enrolments : en.child = child /\ en.occurrence = occ

\* Variant of EnrolCreate that replaces the enrolments the child holds; C23
\* tells the two apart.
EnrolCreateReplaces(p) ==
  LET r == proc[p] IN
  /\ r.pc = "create"
  /\ IF InsertRejected(r.child, r.occurrence)
       THEN /\ Finish(p, "enrol", r.user, r.child, r.occurrence, MsgInternalError)
            /\ enrolments' = enrolments
       ELSE /\ proc' = [proc EXCEPT ![p] = Idle]
            /\ last' = [Response("enrol", r.user, r.child, r.occurrence, MsgOK)
                          EXCEPT !.created_at = Some(auto_now_add)]
            /\ enrolments' = {en \in enrolments : en.child # r.child} \cup
                 {[child |-> r.child, occurrence |-> r.occurrence]}
  /\ UNCHANGED <<events, occurrences, notifications, now,
                 nextEventId, nextOccurrenceId>>

\* Enrolment.objects.create(child=child, occurrence=occurrence), and the commit
EnrolCreate(p) ==
  LET r == proc[p] IN
  /\ r.pc = "create"
  /\ IF InsertRejected(r.child, r.occurrence)
       THEN /\ Finish(p, "enrol", r.user, r.child, r.occurrence, MsgInternalError)
            /\ enrolments' = enrolments
       ELSE /\ proc' = [proc EXCEPT ![p] = Idle]
            /\ last' = [Response("enrol", r.user, r.child, r.occurrence, MsgOK)
                          EXCEPT !.created_at = Some(auto_now_add)]
            /\ enrolments' = enrolments \cup
                 {[child |-> r.child, occurrence |-> r.occurrence]}
  /\ UNCHANGED <<events, occurrences, notifications, now,
                 nextEventId, nextOccurrenceId>>

\* ---------------------------------------------------- unenrolOccurrence
\* Variant of ChildOccurrences that looks the occurrence up among all
\* occurrences; C14 tells the two apart.
AllOccurrences(child) == DOMAIN occurrences

\* child.occurrences.get(pk=occurrence_id)
ChildOccurrences(child) == {en.occurrence : en \in {e \in enrolments : e.child = child}}

\* Variant of Unenrol that refuses an occurrence of the past; C15 tells the
\* two apart.
UnenrolFutureOnly(p, user, child, occ) ==
  /\ proc[p].pc = "idle"
  /\ IF ~is_authenticated(user)
       THEN /\ Denied(p, "unenrol", user)
            /\ enrolments' = enrolments
     ELSE IF child \notin user_can_update(user)
       THEN /\ Finish(p, "unenrol", user, child, occ, MsgNoChild)
            /\ enrolments' = enrolments
     ELSE IF occ \notin ChildOccurrences(child)
       THEN /\ Finish(p, "unenrol", user, child, occ, MsgNoOccurrence)
            /\ enrolments' = enrolments
     ELSE IF OccurrenceInPast(occurrences[occ].time)
       THEN /\ Finish(p, "unenrol", user, child, occ, MsgPastOccurrence)
            /\ enrolments' = enrolments
     ELSE /\ Finish(p, "unenrol", user, child, occ, MsgOK)
          /\ enrolments' = {en \in enrolments :
                              ~(en.child = child /\ en.occurrence = occ)}
  /\ UNCHANGED <<events, occurrences, notifications, now,
                 nextEventId, nextOccurrenceId>>

\* Variant of Unenrol that answers OK and keeps the enrolment; C8 tells the
\* two apart.
UnenrolKeepsRow(p, user, child, occ) ==
  /\ proc[p].pc = "idle"
  /\ IF ~is_authenticated(user)
       THEN Denied(p, "unenrol", user)
     ELSE IF child \notin user_can_update(user)
       THEN Finish(p, "unenrol", user, child, occ, MsgNoChild)
     ELSE IF occ \notin ChildOccurrences(child)
       THEN Finish(p, "unenrol", user, child, occ, MsgNoOccurrence)
     ELSE Finish(p, "unenrol", user, child, occ, MsgOK)
  /\ UNCHANGED <<events, occurrences, enrolments, notifications, now,
                 nextEventId, nextOccurrenceId>>

\* Variant of Unenrol that removes every enrolment of the child; C24 tells
\* the two apart.
UnenrolClearsChild(p, user, child, occ) ==
  /\ proc[p].pc = "idle"
  /\ IF ~is_authenticated(user)
       THEN /\ Denied(p, "unenrol", user)
            /\ enrolments' = enrolments
     ELSE IF child \notin user_can_update(user)
       THEN /\ Finish(p, "unenrol", user, child, occ, MsgNoChild)
            /\ enrolments' = enrolments
     ELSE IF occ \notin ChildOccurrences(child)
       THEN /\ Finish(p, "unenrol", user, child, occ, MsgNoOccurrence)
            /\ enrolments' = enrolments
     ELSE /\ Finish(p, "unenrol", user, child, occ, MsgOK)
          /\ enrolments' = {en \in enrolments : en.child # child}
  /\ UNCHANGED <<events, occurrences, notifications, now,
                 nextEventId, nextOccurrenceId>>

Unenrol(p, user, child, occ) ==
  /\ proc[p].pc = "idle"
  /\ IF ~is_authenticated(user)
       THEN /\ Denied(p, "unenrol", user)
            /\ enrolments' = enrolments
     ELSE IF child \notin user_can_update(user)
       THEN /\ Finish(p, "unenrol", user, child, occ, MsgNoChild)
            /\ enrolments' = enrolments
     ELSE IF occ \notin ChildOccurrences(child)
       THEN /\ Finish(p, "unenrol", user, child, occ, MsgNoOccurrence)
            /\ enrolments' = enrolments
     ELSE /\ Finish(p, "unenrol", user, child, occ, MsgOK)
          /\ enrolments' = {en \in enrolments :
                              ~(en.child = child /\ en.occurrence = occ)}
  /\ UNCHANGED <<events, occurrences, notifications, now,
                 nextEventId, nextOccurrenceId>>

\* --------------------------------------------------------------- events
\* Event.objects.create_translatable_object(**kwargs); the sequence hands
\* out the primary keys 1..keys
AddEvent(p, user, capacity, keys) ==
  /\ proc[p].pc = "idle"
  /\ IF ~is_staff(user)
       THEN /\ Denied(p, "add_event", user)
            /\ UNCHANGED <<events, nextEventId>>
       ELSE /\ nextEventId <= keys
            /\ events' = With(events, nextEventId,
                   [capacity_per_occurrence |-> capacity, published_at |-> None,
                    created_at |-> auto_now_add])
            /\ nextEventId' = nextEventId + 1
            /\ Finish(p, "add_event", user, "c0", nextEventId, MsgOK)
  /\ UNCHANGED <<occurrences, enrolments, notifications, now, nextOccurrenceId>>

\* common.utils.update_object_with_translations(event, kwargs): sets the
\* given attributes on the loaded instance
update_object_with_translations(row, capacity) ==
  IF capacity = None THEN row
  ELSE [row EXCEPT !.capacity_per_occurrence = capacity[1]]

\* Variant of UpdateEvent that removes the enrolments of the event's
\* occurrences when it sets a capacity; C31 tells the two apart.
UpdateEventClearsEnrolments(p, user, id, capacity) ==
  /\ proc[p].pc = "idle"
  /\ IF ~is_staff(user)
       THEN /\ Denied(p, "update_event", user)
            /\ UNCHANGED <<events, enrolments>>
     ELSE IF id \notin DOMAIN events
       THEN /\ Finish(p, "update_event", user, "c0", id, MsgNoEvent)
            /\ UNCHANGED <<events, enrolments>>
     ELSE /\ events' = With(events, id, update_object_with_translations(events[id], capacity))
          /\ enrolments' =
               IF capacity = None THEN enrolments
               ELSE {en \in enrolments :
                       ~(/\ en.occurrence \in DOMAIN occurrences
                         /\ occurrences[en.occurrence].event = id)}
          /\ Finish(p, "update_event", user, "c0", id, MsgOK)
  /\ UNCHANGED <<occurrences, notifications, now, nextEventId, nextOccurrenceId>>

\* Event.objects.get(pk=...), update_object_with_translations, and the commit
UpdateEvent(p, user, id, capacity) ==
  /\ proc[p].pc = "idle"
  /\ IF ~is_staff(user)
       THEN /\ Denied(p, "update_event", user)
            /\ events' = events
     ELSE IF id \notin DOMAIN events
       THEN /\ Finish(p, "update_event", user, "c0", id, MsgNoEvent)
            /\ events' = events
     ELSE /\ events' = With(events, id, update_object_with_translations(events[id], capacity))
          /\ Finish(p, "update_event", user, "c0", id, MsgOK)
  /\ UNCHANGED <<occurrences, enrolments, notifications, now,
                 nextEventId, nextOccurrenceId>>

\* event.delete(): the event's occurrences and their enrolments go with it
OccurrencesOf(id) == {o \in DOMAIN occurrences : occurrences[o].event = id}

\* Variant of DeleteEvent that deletes the event row alone; C18 tells the two
\* apart.
DeleteEventRowOnly(p, user, id) ==
  /\ proc[p].pc = "idle"
  /\ IF ~is_staff(user)
       THEN /\ Denied(p, "delete_event", user)
            /\ events' = events
     ELSE IF id \notin DOMAIN events
       THEN /\ Finish(p, "delete_event", user, "c0", id, MsgNoEvent)
            /\ events' = events
     ELSE /\ events' = Without(events, {id})
          /\ Finish(p, "delete_event", user, "c0", id, MsgOK)
  /\ UNCHANGED <<occurrences, enrolments, notifications, now,
                 nextEventId, nextOccurrenceId>>

DeleteEvent(p, user, id) ==
  /\ proc[p].pc = "idle"
  /\ IF ~is_staff(user)
       THEN /\ Denied(p, "delete_event", user)
            /\ UNCHANGED <<events, occurrences, enrolments>>
     ELSE IF id \notin DOMAIN events
       THEN /\ Finish(p, "delete_event", user, "c0", id, MsgNoEvent)
            /\ UNCHANGED <<events, occurrences, enrolments>>
     ELSE /\ events' = Without(events, {id})
          /\ occurrences' = Without(occurrences, OccurrencesOf(id))
          /\ enrolments' = {en \in enrolments : en.occurrence \notin OccurrencesOf(id)}
          /\ Finish(p, "delete_event", user, "c0", id, MsgOK)
  /\ UNCHANGED <<notifications, now, nextEventId, nextOccurrenceId>>

\* event.is_published()
is_published(row) == row.published_at # None

\* Variant of PublishGet without the is_published check; C9 tells the two
\* apart.
PublishGetUnguarded(p, user, id) ==
  /\ proc[p].pc = "idle"
  /\ \A g \in GuardiansWithChildren : notifications[<<id, g>>] <= MaxDispatch
  /\ IF ~is_staff(user)
       THEN Denied(p, "publish_event", user)
     ELSE IF id \notin DOMAIN events
       THEN Finish(p, "publish_event", user, "c0", id, MsgNoEvent)
     ELSE /\ proc' = [proc EXCEPT ![p] =
                [pc |-> "publish", op |-> "publish_event", user |-> user,
                 event |-> id, row |-> events[id]]]
          /\ last' = last
  /\ UNCHANGED <<events, occurrences, enrolments, notifications, now,
                 nextEventId, nextOccurrenceId>>

\* Event.objects.get(pk=...), then the is_published check on the loaded instance
PublishGet(p, user, id) ==
  /\ proc[p].pc = "idle"
  /\ \A g \in GuardiansWithChildren : notifications[<<id, g>>] <= MaxDispatch
  /\ IF ~is_staff(user)
       THEN Denied(p, "publish_event", user)
     ELSE IF id \notin DOMAIN events
       THEN Finish(p, "publish_event", user, "c0", id, MsgNoEvent)
     ELSE IF is_published(events[id])
       THEN Finish(p, "publish_event", user, "c0", id, MsgAlreadyPublished)
     ELSE /\ proc' = [proc EXCEPT ![p] =
                [pc |-> "publish", op |-> "publish_event", user |-> user,
                 event |-> id, row |-> events[id]]]
          /\ last' = last
  /\ UNCHANGED <<events, occurrences, enrolments, notifications, now,
                 nextEventId, nextOccurrenceId>>

\* event.publish(): published_at = timezone.now() on the loaded instance, save()
publish(row) == [row EXCEPT !.published_at = Some(now)]

\* send_event_notifications_to_guardians(event, EVENT_PUBLISHED, guardians)
Dispatch(id, guardians) ==
  [x \in DOMAIN notifications |->
     IF x[1] = id /\ x[2] \in guardians THEN notifications[x] + 1 ELSE notifications[x]]

\* event.publish(), the notifications, and the commit.  The dispatch runs
\* inside the transaction: when it raises, the transaction is rolled back.
PublishWrite(p) ==
  LET r == proc[p] IN
  /\ r.pc = "publish"
  /\ \E delivered \in BOOLEAN :
       IF delivered
         THEN /\ events' = With(events, r.event, publish(r.row))
              /\ notifications' = Dispatch(r.event, GuardiansWithChildren)
              /\ Finish(p, "publish_event", r.user, "c0", r.event, MsgOK)
         ELSE /\ UNCHANGED <<events, notifications>>
              /\ Finish(p, "publish_event", r.user, "c0", r.event, MsgInternalError)
  /\ UNCHANGED <<occurrences, enrolments, now, nextEventId, nextOccurrenceId>>

\* ---------------------------------------------------------- occurrences
\* Variant of AddOccurrence without the lookup of the venue; C29 tells the
\* two apart.
AddOccurrenceAnyVenue(p, user, time, event_id, venue_id) ==
  /\ proc[p].pc = "idle"
  /\ IF ~is_staff(user)
       THEN /\ Denied(p, "add_occurrence", user)
            /\ UNCHANGED <<occurrences, nextOccurrenceId>>
     ELSE IF event_id \notin DOMAIN events
       THEN /\ Finish(p, "add_occurrence", user, "c0", 0, MsgNoEvent)
            /\ UNCHANGED <<occurrences, nextOccurrenceId>>
     ELSE /\ nextOccurrenceId <= NumOccurrences
          /\ occurrences' = With(occurrences, nextOccurrenceId,
                 [event |-> event_id, venue |-> venue_id, time |-> time])
          /\ nextOccurrenceId' = nextOccurrenceId + 1
          /\ Finish(p, "add_occurrence", user, "c0", nextOccurrenceId, MsgOK)
  /\ UNCHANGED <<events, enrolments, notifications, now, nextEventId>>

\* Event.objects.get, Venue.objects.get, Occurrence.objects.create(**kwargs);
\* the sequence hands out the primary keys 1..NumOccurrences
AddOccurrence(p, user, time, event_id, venue_id) ==
  /\ proc[p].pc = "idle"
  /\ IF ~is_staff(user)
       THEN /\ Denied(p, "add_occurrence", user)
            /\ UNCHANGED <<occurrences, nextOccurrenceId>>
     ELSE IF event_id \notin DOMAIN events
       THEN /\ Finish(p, "add_occurrence", user, "c0", 0, MsgNoEvent)
            /\ UNCHANGED <<occurrences, nextOccurrenceId>>
     ELSE IF venue_id \notin VenueIds
       THEN /\ Finish(p, "add_occurrence", user, "c0", 0, MsgNoVenue)
            /\ UNCHANGED <<occurrences, nextOccurrenceId>>
     ELSE /\ nextOccurrenceId <= NumOccurrences
          /\ occurrences' = With(occurrences, nextOccurrenceId,
                 [event |-> event_id, venue |-> venue_id, time |-> time])
          /\ nextOccurrenceId' = nextOccurrenceId + 1
          /\ Finish(p, "add_occurrence", user, "c0", nextOccurrenceId, MsgOK)
  /\ UNCHANGED <<events, enrolments, notifications, now, nextEventId>>

\* common.utils.update_object(occurrence, kwargs): sets the given attributes
update_object(row, time, event_id, venue_id) ==
  [event |-> IF event_id = None THEN row.event ELSE event_id[1],
   venue |-> IF venue_id = None THEN row.venue ELSE venue_id[1],
   time |-> IF time = None THEN row.time ELSE time[1]]

\* Variant of UpdateOccurrence that saves the new time before it looks up the
\* event and the venue; C12 tells the two apart.
UpdateOccurrenceSavesEarly(p, user, id, time, event_id, venue_id) ==
  /\ proc[p].pc = "idle"
  /\ IF ~is_staff(user)
       THEN /\ Denied(p, "update_occurrence", user)
            /\ occurrences' = occurrences
     ELSE IF id \notin DOMAIN occurrences
       THEN /\ Finish(p, "update_occurrence", user, "c0", id, MsgNoOccurrence)
            /\ occurrences' = occurrences
     ELSE IF event_id # None /\ event_id[1] \notin DOMAIN events
       THEN /\ Finish(p, "update_occurrence", user, "c0", id, MsgNoEvent)
            /\ occurrences' = With(occurrences, id,
                 update_object(occurrences[id], time, None, None))
     ELSE IF venue_id # None /\ venue_id[1] \notin VenueIds
       THEN /\ Finish(p, "update_occurrence", user, "c0", id, MsgNoVenue)
            /\ occurrences' = With(occurrences, id,
                 update_object(occurrences[id], time, None, None))
     ELSE /\ occurrences' = With(occurrences, id,
                 update_object(occurrences[id], time, event_id, venue_id))
          /\ Finish(p, "update_occurrence", user, "c0", id, MsgOK)
  /\ UNCHANGED <<events, enrolments, notifications, now,
                 nextEventId, nextOccurrenceId>>

UpdateOccurrence(p, user, id, time, event_id, venue_id) ==
  /\ proc[p].pc = "idle"
  /\ IF ~is_staff(user)
       THEN /\ Denied(p, "update_occurrence", user)
            /\ occurrences' = occurrences
     ELSE IF id \notin DOMAIN occurrences
       THEN /\ Finish(p, "update_occurrence", user, "c0", id, MsgNoOccurrence)
            /\ occurrences' = occurrences
     ELSE IF event_id # None /\ event_id[1] \notin DOMAIN events
       THEN /\ Finish(p, "update_occurrence", user, "c0", id, MsgNoEvent)
            /\ occurrences' = occurrences
     ELSE IF venue_id # None /\ venue_id[1] \notin VenueIds
       THEN /\ Finish(p, "update_occurrence", user, "c0", id, MsgNoVenue)
            /\ occurrences' = occurrences
     ELSE /\ occurrences' = With(occurrences, id,
                 update_object(occurrences[id], time, event_id, venue_id))
          /\ Finish(p, "update_occurrence", user, "c0", id, MsgOK)
  /\ UNCHANGED <<events, enrolments, notifications, now,
                 nextEventId, nextOccurrenceId>>

\* occurrence.delete(): the occurrence's enrolments go with it
DeleteOccurrence(p, user, id) ==
  /\ proc[p].pc = "idle"
  /\ IF ~is_staff(user)
       THEN /\ Denied(p, "delete_occurrence", user)
            /\ UNCHANGED <<occurrences, enrolments>>
     ELSE IF id \notin DOMAIN occurrences
       THEN /\ Finish(p, "delete_occurrence", user, "c0", id, MsgNoOccurrence)
            /\ UNCHANGED <<occurrences, enrolments>>
     ELSE /\ occurrences' = Without(occurrences, {id})
          /\ enrolments' = {en \in enrolments : en.occurrence # id}
          /\ Finish(p, "delete_occurrence", user, "c0", id, MsgOK)
  /\ UNCHANGED <<events, notifications, now, nextEventId, nextOccurrenceId>>

\* ---------------------------------------------------- occurrences query
\* str.lower() on the letters of the language codes
LowerChar(c) ==
  CASE c = "F" -> "f" [] c = "I" -> "i" [] c = "S" -> "s" [] c = "V" -> "v"
    [] c = "E" -> "e" [] c = "N" -> "n" [] OTHER -> c
Lower(value) == [i \in DOMAIN value |-> LowerChar(value[i])]

\* Occurrence times are instants counted in slots from the start of day 0 in
\* UTC.  The occurrences that queries are run on lie within two days.
QueryTimes == 0 .. (2 * SlotsPerDay - 1)

\* settings.TIME_ZONE: the current time zone is this many slots ahead of UTC
LocalOffset == 1

\* the "date" and "time" transforms of a stored instant: the calendar date and
\* the time of day in the current time zone
date_of(t) == (t + LocalOffset) \div SlotsPerDay
time_of(t) == (t + LocalOffset) % SlotsPerDay

\* The values of the date filter, and those of the time filter: a time of day
\* that is naive (utcoffset None) or carries its offset from UTC.
DateInputs == {date_of(t) : t \in QueryTimes}
TimeInputs == [slot : 0 .. (SlotsPerDay - 1), utcoffset : Opt({0})]

\* events.utils.convert_to_localtime_tz(value): the time of day in the
\* current time zone; a naive value is taken to be in that zone already
convert_to_localtime_tz(value) ==
  IF value.utcoffset = None THEN value.slot
  ELSE (value.slot - value.utcoffset[1] + LocalOffset) % SlotsPerDay

\* date = DateFilter(lookup_expr="date", field_name="time")
filter_by_date(qs, value) == {occ \in qs : date_of(occurrences[occ].time) = value}

filter_by_time(qs, value) ==
  {occ \in qs : time_of(occurrences[occ].time) = convert_to_localtime_tz(value)}

\* Variant of filter_by_upcoming that leaves out the occurrences at the
\* current time; C19 tells the two apart.
filter_by_upcoming_strict(qs, value) ==
  IF value THEN {occ \in qs : occurrences[occ].time > now} ELSE qs

filter_by_upcoming(qs, value) ==
  IF value THEN {occ \in qs : occurrences[occ].time >= now} ELSE qs

filter_by_venue_global_id(qs, value) == {occ \in qs : occurrences[occ].venue = value}

\* Variant of filter_by_event_global_id that filters the whole table instead
\* of the queryset it is given; C21 tells the two apart.
filter_by_event_unchained(qs, value) ==
  {occ \in DOMAIN occurrences : occurrences[occ].event = value}

filter_by_event_global_id(qs, value) == {occ \in qs : occurrences[occ].event = value}

\* Variant of filter_by_occurrence_language that compares the value as it was
\* given; C20 tells the two apart.
filter_by_language_as_given(qs, value) ==
  {occ \in qs : occurrence_language(occ) = value}

filter_by_occurrence_language(qs, value) ==
  {occ \in qs : occurrence_language(occ) = Lower(value)}

FilterInputs ==
  [date : Opt(DateInputs), time : Opt(TimeInputs),
   upcoming : Opt(BOOLEAN), venue_id : Opt(VenueIdInputs),
   event_id : Opt(EventIds), occurrence_language : Opt(LanguageInputs)]

\* OccurrenceFilter: each filter that was given a value narrows the queryset
OccurrenceFilter(qs, f) ==
  LET d == IF f.date = None THEN qs ELSE filter_by_date(qs, f.date[1])
      t == IF f.time = None THEN d ELSE filter_by_time(d, f.time[1])
      a == IF f.upcoming = None THEN t ELSE filter_by_upcoming(t, f.upcoming[1])
      b == IF f.venue_id = None THEN a ELSE filter_by_venue_global_id(a, f.venue_id[1])
      c == IF f.event_id = None THEN b ELSE filter_by_event_global_id(b, f.event_id[1])
  IN IF f.occurrence_language = None THEN c
     ELSE filter_by_occurrence_language(c, f.occurrence_language[1])

\* queryset.order_by("time"): the rows in an order of ascending time; the
\* order of rows of equal time is the database's choice
order_by_time(qs) ==
  {rows \in [1..Cardinality(qs) -> qs] :
     /\ \A i, j \in DOMAIN rows : i # j => rows[i] # rows[j]
     /\ \A i, j \in DOMAIN rows :
          i < j => occurrences[rows[i]].time <= occurrences[rows[j]].time}

\* the occurrences query: OccurrenceNode.get_queryset and OccurrenceFilter
OccurrencesQuery(p, user, f) ==
  /\ proc[p].pc = "idle"
  /\ IF ~is_authenticated(user)
       THEN Denied(p, "occurrences", user)
       ELSE \E rows \in order_by_time(OccurrenceFilter(DOMAIN occurrences, f)) :
              /\ proc' = [proc EXCEPT ![p] = Idle]
              /\ last' = [Response("occurrences", user, "c0", 0, MsgOK)
                            EXCEPT !.filters = Some(f), !.rows = Some(rows)]
  /\ UNCHANGED <<events, occurrences, enrolments, notifications, now,
                 nextEventId, nextOccurrenceId>>

\* Variant of order_by_created_at_desc that puts the oldest event first; C22
\* tells the two apart.
order_by_created_at_asc(qs) ==
  {rows \in [1..Cardinality(qs) -> qs] :
     /\ \A i, j \in DOMAIN rows : i # j => rows[i] # rows[j]
     /\ \A i, j \in DOMAIN rows :
          i < j => events[rows[i]].created_at <= events[rows[j]].created_at}

\* queryset.order_by("-created_at"): the rows in an order of descending
\* creation time
order_by_created_at_desc(qs) ==
  {rows \in [1..Cardinality(qs) -> qs] :
     /\ \A i, j \in DOMAIN rows : i # j => rows[i] # rows[j]
     /\ \A i, j \in DOMAIN rows :
          i < j => events[rows[i]].created_at >= events[rows[j]].created_at}

\* the events query: EventNode.get_queryset
EventsQuery(p, user) ==
  /\ proc[p].pc = "idle"
  /\ IF ~is_authenticated(user)
       THEN Denied(p, "events", user)
       ELSE \E rows \in order_by_created_at_desc(DOMAIN events) :
              /\ proc' = [proc EXCEPT ![p] = Idle]
              /\ last' = [Response("events", user, "c0", 0, MsgOK)
                            EXCEPT !.rows = Some(rows)]
  /\ UNCHANGED <<events, occurrences, enrolments, notifications, now,
                 nextEventId, nextOccurrenceId>>

\* -------------------------------------------------------- specifications
\* A step of worker p on an enrolOccurrence or unenrolOccurrence request.
EnrolmentStep(p) ==
  \/ \E user \in Users, child \in ChildIdInputs, occ \in OccurrenceIds :
       EnrolGet(p, user, child, occ)
  \/ EnrolCheckJoined(p)
  \/ EnrolCheckCapacity(p)
  \/ EnrolCheckTime(p)
  \/ EnrolCreate(p)
  \/ \E user \in Users, child \in ChildIdInputs, occ \in OccurrenceIds :
       Unenrol(p, user, child, occ)

\* The input of a request that staff_member_required rejects is never read:
\* one value stands for all of them.
StaffInput(user, S) == IF is_staff(user) THEN S ELSE {CHOOSE x \in S : TRUE}

\* A step of worker p on a request that creates or deletes an event.
EventLifecycleStep(p, keys) ==
  \/ \E user \in Users : \E capacity \in StaffInput(user, Capacities) :
       AddEvent(p, user, capacity, keys)
  \/ \E user \in Users : \E id \in StaffInput(user, EventIds) :
       DeleteEvent(p, user, id)

\* A step of worker p on a request that creates or deletes an occurrence.
OccurrenceLifecycleStep(p) ==
  \/ \E user \in Users :
       \E time \in StaffInput(user, Times), event_id \in StaffInput(user, EventIds),
          venue_id \in StaffInput(user, VenueIdInputs) :
         AddOccurrence(p, user, time, event_id, venue_id)
  \/ \E user \in Users : \E id \in StaffInput(user, OccurrenceIds) :
       DeleteOccurrence(p, user, id)

\* A step of worker p on a request that updates or publishes an event.
EventChangeStep(p) ==
  \/ \E user \in Users :
       \E id \in StaffInput(user, EventIds), capacity \in StaffInput(user, Opt(Capacities)) :
         UpdateEvent(p, user, id, capacity)
  \/ \E user \in Users : \E id \in StaffInput(user, EventIds) :
       PublishGet(p, user, id)
  \/ PublishWrite(p)

\* A step of worker p on a request that updates an occurrence.
OccurrenceChangeStep(p) ==
  \E user \in Users :
    \E id \in StaffInput(user, OccurrenceIds), time \in StaffInput(user, Opt(Times)),
       event_id \in StaffInput(user, Opt(EventIds)),
       venue_id \in StaffInput(user, Opt(VenueIdInputs)) :
      UpdateOccurrence(p, user, id, time, event_id, venue_id)

\* The callers of the queries: a query reads nothing of its caller but
\* whether it is logged in.
QueryUsers == {"anon", "g1"}

\* A step of worker p on a query.  The input of a query that login_required
\* rejects is never read.
QueryStep(p) ==
  \/ \E user \in QueryUsers :
       \E f \in IF is_authenticated(user) THEN FilterInputs
                   ELSE {CHOOSE x \in FilterInputs : TRUE} :
         OccurrencesQuery(p, user, f)
  \/ \E user \in QueryUsers : EventsQuery(p, user)

\* A step of worker p on a staff request that sets up what the queries read:
\* events, and occurrences at the times of QueryTimes.
QueryStoreStep(p) ==
  \/ AddEvent(p, "staff", MaxCapacity, NumEvents)
  \/ \E time \in QueryTimes, event_id \in EventIds :
       AddOccurrence(p, "staff", time, event_id, "v1")
  \/ \E id \in OccurrenceIds : DeleteOccurrence(p, "staff", id)

\* one step of worker p
Step(p, keys) ==
  \/ EnrolmentStep(p)
  \/ EventLifecycleStep(p, keys)
  \/ OccurrenceLifecycleStep(p)
  \/ EventChangeStep(p)
  \/ OccurrenceChangeStep(p)

\* Requests are served one at a time, by one worker: the clock does not
\* advance within a request, and each response is handed to its caller
\* before the next request is served.
Server == CHOOSE p \in Procs : TRUE
AllIdle == \A q \in Procs : proc[q].pc = "idle"
Next ==
  \/ Deliver
  \/ last = NoResponse /\ AllIdle /\ Tick
  \/ last = NoResponse /\ Step(Server, NumEvents)
Spec == Init /\ [][Next]_vars

\* Enrolment requests served by NumProcs workers at once, their queries
\* interleaved, while events and occurrences are created and deleted: no
\* request changes an event's capacity or an occurrence's event.
NextRace ==
  \/ Deliver
  \/ last = NoResponse /\ Tick
  \/ last = NoResponse /\ \E p \in Procs :
        \/ EnrolmentStep(p)
        \/ EventLifecycleStep(p, NumConcEvents)
        \/ OccurrenceLifecycleStep(p)
SpecRace == Init /\ [][NextRace]_vars

\* Event requests served by NumProcs workers at once, their queries
\* interleaved.
NextPublish ==
  \/ Deliver
  \/ last = NoResponse /\ Tick
  \/ last = NoResponse /\ \E p \in Procs :
        EventLifecycleStep(p, NumConcEvents) \/ EventChangeStep(p)
SpecPublish == Init /\ [][NextPublish]_vars

\* Enrolment requests served one at a time for events with up to
\* ExampleCapacity places per occurrence.
NextCapacity ==
  \/ Deliver
  \/ last = NoResponse /\ AllIdle /\ Tick
  \/ /\ last = NoResponse
     /\ \/ EnrolmentStep(Server)
        \/ \E user \in Users : \E capacity \in StaffInput(user, 0..ExampleCapacity) :
             AddEvent(Server, user, capacity, NumEvents)
        \/ OccurrenceLifecycleStep(Server)
SpecCapacity == Init /\ [][NextCapacity]_vars

\* Queries and the staff requests that change what they return, served one
\* at a time.
NextQuery ==
  \/ Deliver
  \/ last = NoResponse /\ AllIdle /\ Tick
  \/ /\ last = NoResponse
     /\ \/ QueryStoreStep(Server)
        \/ QueryStep(Server)
SpecQuery == Init /\ [][NextQuery]_vars

\* The steps by which worker p goes on with the request it has started.
Continue(p) ==
  \/ EnrolCheckJoined(p)
  \/ EnrolCheckCapacity(p)
  \/ EnrolCheckTime(p)
  \/ EnrolCreate(p)
  \/ PublishWrite(p)

\* The requests worker p starts: Enrol and Unenrol by a guardian, Publish by
\* staff, and the staff requests that create what these work on.
Start(p) ==
  \/ \E child \in ChildIdInputs, occ \in OccurrenceIds : EnrolGet(p, "g1", child, occ)
  \/ \E child \in ChildIdInputs, occ \in OccurrenceIds : Unenrol(p, "g1", child, occ)
  \/ \E id \in EventIds : PublishGet(p, "staff", id)
  \/ AddEvent(p, "staff", MaxCapacity, NumConcEvents)
  \/ \E time \in Times, event_id \in EventIds :
       AddOccurrence(p, "staff", time, event_id, "v1")

\* Enrol, Unenrol and Publish requests served by NumProcs workers at once.
\* Each response is handed to its caller, and a worker that has started a
\* request and can take its next step again and again does take it: no
\* worker is left out by the scheduler for ever.
NextLive ==
  \/ Deliver
  \/ last = NoResponse /\ Tick
  \/ last = NoResponse /\ \E p \in Procs : Start(p) \/ Continue(p)
Fairness ==
  /\ WF_vars(Deliver)
  /\ \A p \in Procs : SF_vars(last = NoResponse /\ Continue(p))
SpecLive == Init /\ [][NextLive]_vars /\ Fairness

\* ------------------------------------------------------------- claims
\* the capacity of the event an occurrence belongs to
CapacityOf(occ) == events[occurrences[occ].event].capacity_per_occurrence

\* C1: under any interleaving of concurrent Enrol requests, the number of
\* committed enrolments of an occurrence never exceeds the capacity of its
\* event (SpecRace has no request that changes a capacity).
C1_CapacityNeverExceeded ==
  \A occ \in DOMAIN occurrences :
    occurrences[occ].event \in DOMAIN events => EnrolmentCount(occ) <= CapacityOf(occ)

\* worker p is past the lookups of an Enrol request and returns in this step
EnrolReturns(p) ==
  /\ proc[p].pc \in {"check_joined", "check_capacity", "check_time", "create"}
  /\ proc'[p].pc = "idle"

\* C2: of concurrent Enrol requests of eligible children for a future
\* occurrence, those that return while the occurrence is full fail with
\* CAPACITY_EXCEEDED (none of them is admitted beyond the capacity).
C2_FullOccurrenceRejects ==
  [][\A p \in Procs :
       (/\ EnrolReturns(p)
        /\ proc[p].occurrence \in DOMAIN occurrences
        /\ occurrences[proc[p].occurrence].event \in DOMAIN events
        /\ ~JoinedEvent(proc[p].child, occurrences[proc[p].occurrence].event)
        /\ occurrences[proc[p].occurrence].time >= now
        /\ EnrolmentCount(proc[p].occurrence) >= CapacityOf(proc[p].occurrence))
       => last'.result = MsgMaxEnrolments]_vars

\* the enrolments a child holds among the occurrences of an event
EnrolmentsIn(child, event) ==
  {en \in enrolments : /\ en.child = child
                       /\ en.occurrence \in DOMAIN occurrences
                       /\ occurrences[en.occurrence].event = event}

\* C3: in every reachable state each child holds at most one enrolment
\* among the occurrences of one event.
C3_OneEnrolmentPerEvent ==
  \A child \in Children, event \in EventIds :
    Cardinality(EnrolmentsIn(child, event)) <= 1

\* C10: once an event's publishedAt is non-null it never changes and never
\* returns to null while the event exists.
C10_PublishedOnce ==
  [][\A id \in DOMAIN events :
       (is_published(events[id]) /\ id \in DOMAIN events')
       => events'[id].published_at = events[id].published_at]_vars

\* a response to a request `op` is returned in this step
Responds(op) == last = NoResponse /\ last'.op = op

\* the request answered in this step names a child the acting user may act
\* for and an occurrence that exists
EligibleRequest ==
  /\ last'.user \in GuardiansOf(last'.child)
  /\ last'.target \in DOMAIN occurrences

\* C4: Enrol of a child that already holds an enrolment in an occurrence of
\* the target occurrence's event fails with "Child already joined this event"
\* and creates no enrolment.
C4_SecondEnrolConflicts ==
  [][(/\ Responds("enrol")
      /\ EligibleRequest
      /\ JoinedEvent(last'.child, occurrences[last'.target].event))
     => (last'.result = MsgAlreadyJoined /\ enrolments' = enrolments)]_vars

\* C4 witness: the child was refused for an occurrence other than the one it
\* is enrolled in.
C4_Witness ==
  /\ last.op = "enrol"
  /\ last.result = MsgAlreadyJoined
  /\ \E en \in enrolments : en.child = last.child /\ en.occurrence # last.target

\* The outcome the spec's ordered preconditions give an Enrol request.
EnrolOutcome(user, child, occ) ==
  IF ~is_authenticated(user) THEN MsgPermissionDenied
  ELSE IF occ \notin DOMAIN occurrences THEN MsgNoOccurrence
  ELSE IF user \notin GuardiansOf(child) THEN MsgNoChild
  ELSE IF JoinedEvent(child, occurrences[occ].event) THEN MsgAlreadyJoined
  ELSE IF EnrolmentCount(occ) >= CapacityOf(occ) THEN MsgMaxEnrolments
  ELSE IF occurrences[occ].time < now THEN MsgPastOccurrence
  ELSE MsgOK

\* C5: Enrol reports the failure of the first violated precondition in the
\* order occurrence, child, already joined, full, past.
C5_PreconditionOrder ==
  [][(Responds("enrol") /\ is_authenticated(last'.user))
     => last'.result = EnrolOutcome(last'.user, last'.child, last'.target)]_vars

\* C5 witness: the child is enrolled in a full occurrence of the past and is
\* refused as already joined.
C5_Witness ==
  /\ last.op = "enrol"
  /\ last.result = MsgAlreadyJoined
  /\ [child |-> last.child, occurrence |-> last.target] \in enrolments
  /\ EnrolmentCount(last.target) >= CapacityOf(last.target)
  /\ occurrences[last.target].time < now

\* C6: Enrol on an occurrence whose time is before the current time fails
\* with a conflict, whatever the capacity and the number of enrolments, and
\* creates no enrolment.
C6_PastOccurrenceConflicts ==
  [][(/\ Responds("enrol")
      /\ EligibleRequest
      /\ occurrences[last'.target].time < now)
     => (/\ ErrorKind(last'.result) \in {"CONFLICT", "CAPACITY_EXCEEDED"}
         /\ enrolments' = enrolments)]_vars

\* C6 witness: an occurrence of the past with a free place refuses a child.
C6_Witness ==
  /\ last.op = "enrol"
  /\ last.result = MsgPastOccurrence
  /\ EnrolmentCount(last.target) < CapacityOf(last.target)

\* C7: Enrol and Unenrol by a user who is not a guardian of the child answer
\* as they do for a child that does not exist, and change nothing.
C7_NotGuardianIsNotFound ==
  [][(/\ Responds("enrol") \/ Responds("unenrol")
      /\ is_authenticated(last'.user)
      /\ last'.user \notin GuardiansOf(last'.child))
     => (/\ last'.result = IF last'.op = "enrol" /\ last'.target \notin DOMAIN occurrences
                             THEN MsgNoOccurrence ELSE MsgNoChild
         /\ UNCHANGED <<store, notifications>>)]_vars

\* C7 witness: a guardian of another child is answered "not found" for an
\* existing child.
C7_Witness ==
  /\ last.op \in {"enrol", "unenrol"}
  /\ last.result = MsgNoChild
  /\ last.child \in Children
  /\ last.user \in Guardians
  /\ last.user \notin GuardiansOf(last.child)

\* C8: a successful Unenrol of the child's only enrolment in an event leaves
\* the child without enrolment in that event, and an Enrol of a child without
\* enrolment in the event succeeds when the occurrence is not full and not in
\* the past: Unenrol followed by Enrol of the same child and occurrence
\* succeeds.
C8_ReEnrolAfterUnenrol ==
  [][/\ (/\ Responds("unenrol")
         /\ last'.result = MsgOK
         /\ last'.target \in DOMAIN occurrences
         /\ EnrolmentsIn(last'.child, occurrences[last'.target].event)
              = {[child |-> last'.child, occurrence |-> last'.target]})
        => \A en \in enrolments' :
             ~(/\ en.child = last'.child
               /\ en.occurrence \in DOMAIN occurrences'
               /\ occurrences'[en.occurrence].event = occurrences[last'.target].event)
     /\ (/\ Responds("enrol")
         /\ EligibleRequest
         /\ ~JoinedEvent(last'.child, occurrences[last'.target].event)
         /\ EnrolmentCount(last'.target) < CapacityOf(last'.target)
         /\ occurrences[last'.target].time >= now)
        => (/\ last'.result = MsgOK
            /\ enrolments' = enrolments \cup
                 {[child |-> last'.child, occurrence |-> last'.target]})]_vars

\* C8 witness: the child has just been unenrolled from an occurrence that is
\* not in the past and has a free place, and holds no enrolment in its event.
C8_Witness ==
  /\ last.op = "unenrol"
  /\ last.result = MsgOK
  /\ last.target \in DOMAIN occurrences
  /\ ~JoinedEvent(last.child, occurrences[last.target].event)
  /\ EnrolmentCount(last.target) < CapacityOf(last.target)
  /\ occurrences[last.target].time >= now

\* C9: Publish on a published event fails with "Event is already published",
\* leaves publishedAt unchanged and dispatches no notification.
C9_RepublishConflicts ==
  [][(/\ Responds("publish_event")
      /\ is_staff(last'.user)
      /\ last'.target \in DOMAIN events
      /\ events[last'.target].published_at # None)
     => (/\ last'.result = MsgAlreadyPublished
         /\ UNCHANGED <<events, notifications>>)]_vars

\* C9 witness: a published event refused a second Publish at a later time.
C9_Witness ==
  /\ last.op = "publish_event"
  /\ last.result = MsgAlreadyPublished
  /\ events[last.target].published_at # Some(now)

\* C11: when the notification dispatch of a Publish fails, the event is
\* published all the same: its published_at is the time of the Publish.
C11_DispatchFailureKeepsPublish ==
  [][(/\ Responds("publish_event")
      /\ proc[Server].pc = "publish"
      /\ last'.result = MsgInternalError)
     => (/\ last'.target \in DOMAIN events'
         /\ events'[last'.target].published_at = Some(now))]_vars

\* a not-found or business-rule failure (spec section 7)
BusinessFailure(msg) == ErrorKind(msg) \in {"NOT_FOUND", "CONFLICT", "CAPACITY_EXCEEDED"}

\* C12: a request that ends in a not-found or business-rule failure leaves
\* events, occurrences and enrolments as they were when it started: no step
\* of a request that is still running writes, and the failing step does not.
C12_FailureLeavesStore ==
  [][/\ (/\ last = NoResponse
         /\ last' # NoResponse
         /\ BusinessFailure(last'.result)) => store' = store
     /\ proc'[Server].pc # "idle" => store' = store]_vars

\* C12 witness: an updateOccurrence of an existing occurrence failed on a
\* missing event.
C12_Witness ==
  /\ last.op = "update_occurrence"
  /\ last.result = MsgNoEvent
  /\ last.target \in DOMAIN occurrences

StaffOps ==
  {"add_event", "update_event", "delete_event", "publish_event",
   "add_occurrence", "update_occurrence", "delete_occurrence"}

\* the enrolments of the children other than `child`
EnrolmentsOfOthers(child, ens) == {en \in ens : en.child # child}

\* C13: a step changes events, occurrences, enrolments or notifications only
\* as the answer to a staff operation requested by the staff user, or to an
\* enrolOccurrence or unenrolOccurrence requested by a guardian of the child,
\* which then changes only enrolments of that child.
C13_OnlyAuthorizedWrites ==
  [][(store' # store \/ notifications' # notifications)
     => (/\ last = NoResponse
         /\ \/ last'.op \in StaffOps /\ last'.user = "staff"
            \/ /\ last'.op \in {"enrol", "unenrol"}
               /\ last'.user \in GuardiansOf(last'.child)
               /\ UNCHANGED <<events, occurrences, notifications>>
               /\ EnrolmentsOfOthers(last'.child, enrolments')
                    = EnrolmentsOfOthers(last'.child, enrolments))]_vars

\* C13 witness: a guardian was refused a staff operation on an existing event
\* while another child's guardian had enrolled that child.
C13_Witness ==
  /\ last.op \in StaffOps
  /\ last.user \in Guardians
  /\ last.result = MsgPermissionDenied
  /\ events # << >>
  /\ enrolments # {}

\* the enrolment row of the request answered in this step
RequestedRow == [child |-> last'.child, occurrence |-> last'.target]

\* C14: Unenrol by the child's guardian, for an occurrence the child holds no
\* enrolment in, fails with NOT_FOUND and removes nothing.
C14_UnenrolNotEnrolled ==
  [][(/\ Responds("unenrol")
      /\ last'.user \in GuardiansOf(last'.child)
      /\ RequestedRow \notin enrolments)
     => (/\ ErrorKind(last'.result) = "NOT_FOUND"
         /\ enrolments' = enrolments)]_vars

\* C14 witness: the occurrence exists and holds another child's enrolment,
\* and the child is enrolled in a different occurrence.
C14_Witness ==
  /\ last.op = "unenrol"
  /\ last.result = MsgNoOccurrence
  /\ last.target \in DOMAIN occurrences
  /\ \E en \in enrolments : en.occurrence = last.target /\ en.child # last.child
  /\ \E en \in enrolments : en.child = last.child /\ en.occurrence # last.target

\* C15: Unenrol by the child's guardian, for an occurrence the child holds an
\* enrolment in, succeeds and removes that enrolment, whatever the
\* occurrence's time and enrolment count.
C15_UnenrolEnrolled ==
  [][(/\ Responds("unenrol")
      /\ last'.user \in GuardiansOf(last'.child)
      /\ RequestedRow \in enrolments)
     => (/\ last'.result = MsgOK
         /\ enrolments' = enrolments \ {RequestedRow})]_vars

\* C15 witness: the child was unenrolled from an occurrence of the past that
\* held more enrolments than the event's capacity.
C15_Witness ==
  /\ last.op = "unenrol"
  /\ last.result = MsgOK
  /\ last.target \in DOMAIN occurrences
  /\ occurrences[last.target].time < now
  /\ EnrolmentCount(last.target) >= CapacityOf(last.target)

\* The remaining capacity of an occurrence (spec section 5): the event's
\* capacity_per_occurrence minus the number of enrolments of the occurrence.
RemainingCapacity(occ) == CapacityOf(occ) - EnrolmentCount(occ)

RefersToExisting(evs, occs, ens) ==
  /\ \A occ \in DOMAIN occs : occs[occ].event \in DOMAIN evs
  /\ \A en \in ens : en.occurrence \in DOMAIN occs

\* C18: after a successful DeleteEvent the event, its occurrences and their
\* enrolments are gone, and after every step each enrolment refers to an
\* existing occurrence and each occurrence to an existing event.
C18_DeleteCascades ==
  [][/\ RefersToExisting(events', occurrences', enrolments')
     /\ (Responds("delete_event") /\ last'.result = MsgOK)
        => (/\ last'.target \notin DOMAIN events'
            /\ \A occ \in DOMAIN occurrences' :
                 occurrences'[occ].event # last'.target
            /\ \A en \in enrolments' :
                 ~(/\ en.occurrence \in DOMAIN occurrences
                   /\ occurrences[en.occurrence].event = last'.target))]_vars

\* C18 witness: an event was deleted, an occurrence created earlier is gone,
\* and another event keeps its occurrence and enrolment.
C18_Witness ==
  /\ last.op = "delete_event"
  /\ last.result = MsgOK
  /\ \E occ \in OccurrenceIds : occ < nextOccurrenceId /\ occ \notin DOMAIN occurrences
  /\ enrolments # {}

\* the rows of a sequence
Range(rows) == {rows[i] : i \in DOMAIN rows}

\* an occurrences query has been answered with rows
QueryAnswered == last.op = "occurrences" /\ last.result = MsgOK

SameLetter(a, b) ==
  \/ a = b
  \/ {a, b} \in {{"F", "f"}, {"I", "i"}, {"S", "s"}, {"V", "v"}, {"E", "e"}, {"N", "n"}}

\* the same language code in another casing
SameCode(v, w) ==
  /\ DOMAIN v = DOMAIN w
  /\ \A i \in DOMAIN v : SameLetter(v[i], w[i])

\* C20: an occurrences query with a language filter returns the rows the same
\* query returns for every other casing of the language code.
C20_LanguageCaseInsensitive ==
  (QueryAnswered /\ last.filters[1].occurrence_language # None) =>
    LET f == last.filters[1]
    IN \A w \in LanguageInputs :
         SameCode(f.occurrence_language[1], w)
           => Range(last.rows[1]) =
                OccurrenceFilter(DOMAIN occurrences,
                                 [f EXCEPT !.occurrence_language = Some(w)])

\* C20 witness: a query for "FI" returned an occurrence.
C20_Witness ==
  /\ QueryAnswered
  /\ last.filters[1].occurrence_language = Some(<<"F", "I">>)
  /\ last.rows[1] # << >>

\* the names of the filters of OccurrenceFilter
FilterNames == {"date", "time", "upcoming", "venue_id", "event_id", "occurrence_language"}

\* the filter of the given name applied alone to qs, with its value in f
FilterAlone(name, qs, f) ==
  IF f[name] = None THEN qs
  ELSE CASE name = "date" -> filter_by_date(qs, f.date[1])
         [] name = "time" -> filter_by_time(qs, f.time[1])
         [] name = "upcoming" -> filter_by_upcoming(qs, f.upcoming[1])
         [] name = "venue_id" -> filter_by_venue_global_id(qs, f.venue_id[1])
         [] name = "event_id" -> filter_by_event_global_id(qs, f.event_id[1])
         [] name = "occurrence_language" ->
              filter_by_occurrence_language(qs, f.occurrence_language[1])

\* C21: an occurrences query returns exactly the occurrences that each of
\* its filters returns when applied alone to all occurrences, and any two
\* filters can be swapped on any queryset (so every order of applying them
\* gives the same set).
C21_FiltersConjunctive ==
  QueryAnswered =>
    LET f == last.filters[1]
        all == DOMAIN occurrences
    IN /\ Range(last.rows[1]) =
            {occ \in all : \A name \in FilterNames : occ \in FilterAlone(name, all, f)}
       /\ \A ab \in {pair \in SUBSET FilterNames : Cardinality(pair) = 2} :
            \A qs \in SUBSET all :
              LET a == CHOOSE name \in ab : TRUE
                  b == CHOOSE name \in ab : name # a
              IN FilterAlone(a, FilterAlone(b, qs, f), f)
                   = FilterAlone(b, FilterAlone(a, qs, f), f)

\* C21 witness: a query with all six filters returned one of two occurrences;
\* the other is left out by the date filter and by none of the time, upcoming,
\* venue and event filters.
C21_Witness ==
  /\ QueryAnswered
  /\ \A name \in FilterNames : last.filters[1][name] # None
  /\ Cardinality(Range(last.rows[1])) = 1
  /\ \E occ \in DOMAIN occurrences :
       /\ occ \notin FilterAlone("date", DOMAIN occurrences, last.filters[1])
       /\ \A name \in {"time", "upcoming", "venue_id", "event_id"} :
            occ \in FilterAlone(name, DOMAIN occurrences, last.filters[1])

\* C22: the rows of an unfiltered occurrences query are all occurrences, each
\* once, no row before a row of an earlier time; the rows of an events query
\* are all events, each once, no row before a row of a later creation time.
C22_DefaultOrdering ==
  /\ (QueryAnswered /\ \A name \in FilterNames : last.filters[1][name] = None) =>
       LET rows == last.rows[1]
       IN /\ Range(rows) = DOMAIN occurrences
          /\ Len(rows) = Cardinality(DOMAIN occurrences)
          /\ \A i, j \in DOMAIN rows :
               occurrences[rows[i]].time < occurrences[rows[j]].time => i < j
  /\ (last.op = "events" /\ last.result = MsgOK) =>
       LET rows == last.rows[1]
       IN /\ Range(rows) = DOMAIN events
          /\ Len(rows) = Cardinality(DOMAIN events)
          /\ \A i, j \in DOMAIN rows :
               events[rows[i]].created_at > events[rows[j]].created_at => i < j

\* C22 witness: an events query returned two events, the one created later
\* first, while two occurrences of different times exist.
C22_Witness ==
  /\ last.op = "events" /\ last.result = MsgOK
  /\ Len(last.rows[1]) = 2
  /\ events[last.rows[1][1]].created_at > events[last.rows[1][2]].created_at
  /\ \E o1, o2 \in DOMAIN occurrences : occurrences[o1].time < occurrences[o2].time

\* the enrolments stored for an occurrence
StoredFor(occ, rows) == {en \in rows : en.occurrence = occ}

\* C23: a successful Enrol adds the one enrolment of the child in the
\* occurrence, which was not there before, with createdAt the current time;
\* the occurrence has one enrolment more, and every other enrolment, every
\* occurrence and every event is as before.
C23_EnrolAddsOne ==
  [][(Responds("enrol") /\ last'.result = MsgOK)
     => (/\ RequestedRow \notin enrolments
         /\ enrolments' = enrolments \cup {RequestedRow}
         /\ last'.created_at = Some(now)
         /\ Cardinality(StoredFor(last'.target, enrolments'))
              = Cardinality(StoredFor(last'.target, enrolments)) + 1
         /\ \A occ \in OccurrenceIds \ {last'.target} :
              StoredFor(occ, enrolments') = StoredFor(occ, enrolments)
         /\ UNCHANGED <<events, occurrences>>)]_vars

\* C23 witness: an Enrol at a time after the start has succeeded while an
\* enrolment in another occurrence is stored.
C23_Witness ==
  /\ last.op = "enrol"
  /\ last.result = MsgOK
  /\ last.created_at = Some(now)
  /\ now > 0
  /\ [child |-> last.child, occurrence |-> last.target] \in enrolments
  /\ \E en \in enrolments : en.occurrence # last.target

\* C24: a successful Unenrol removes the enrolment of the child in the
\* occurrence, which was there before, and no other enrolment: those of other
\* children in the occurrence and those of the child in other occurrences
\* stay; no occurrence and no event changes.
C24_UnenrolRemovesOne ==
  [][(Responds("unenrol") /\ last'.result = MsgOK)
     => (/\ RequestedRow \in enrolments
         /\ RequestedRow \notin enrolments'
         /\ \A en \in enrolments : en # RequestedRow => en \in enrolments'
         /\ enrolments' \subseteq enrolments
         /\ UNCHANGED <<events, occurrences>>)]_vars

\* C24 witness: after a successful Unenrol another child is still enrolled in
\* the occurrence, and the child is still enrolled in an occurrence of another
\* event.
C24_Witness ==
  /\ last.op = "unenrol"
  /\ last.result = MsgOK
  /\ last.target \in DOMAIN occurrences
  /\ \E en \in enrolments : en.occurrence = last.target /\ en.child # last.child
  /\ \E en \in enrolments :
       /\ en.child = last.child
       /\ en.occurrence \in DOMAIN occurrences
       /\ occurrences[en.occurrence].event # occurrences[last.target].event

\* C25: an Enrol is refused as past only for an occurrence whose time is
\* strictly before the current time; an Enrol for an occurrence at the current
\* time that passes the other checks succeeds.
C25_PresentIsNotPast ==
  [][/\ (Responds("enrol") /\ last'.result = MsgPastOccurrence)
        => (/\ last'.target \in DOMAIN occurrences
            /\ occurrences[last'.target].time < now)
     /\ (/\ Responds("enrol")
         /\ EligibleRequest
         /\ occurrences[last'.target].time = now
         /\ ~JoinedEvent(last'.child, occurrences[last'.target].event)
         /\ EnrolmentCount(last'.target) < CapacityOf(last'.target))
        => last'.result = MsgOK]_vars

\* C25 witness: an Enrol for an occurrence at the current time, later than
\* the start, has succeeded.
C25_Witness ==
  /\ last.op = "enrol"
  /\ last.result = MsgOK
  /\ last.target \in DOMAIN occurrences
  /\ occurrences[last.target].time = now
  /\ now = MaxTime

\* C26: the capacity check counts the enrolments stored for the occurrence at
\* the time of the request: an Enrol that passes the checks before it is
\* refused as full exactly if that number has reached the capacity, and a
\* successful Unenrol from a full occurrence leaves it one below the
\* capacity, so that the next Enrol of an eligible child is not refused as
\* full.
C26_LiveCount ==
  [][/\ (/\ Responds("enrol")
         /\ EligibleRequest
         /\ ~JoinedEvent(last'.child, occurrences[last'.target].event))
        => ((last'.result = MsgMaxEnrolments)
              <=> (Cardinality(StoredFor(last'.target, enrolments))
                     >= CapacityOf(last'.target)))
     /\ (/\ Responds("enrol")
         /\ EligibleRequest
         /\ ~JoinedEvent(last'.child, occurrences[last'.target].event)
         /\ Cardinality(StoredFor(last'.target, enrolments)) < CapacityOf(last'.target)
         /\ occurrences[last'.target].time >= now)
        => last'.result = MsgOK
     /\ (/\ Responds("unenrol")
         /\ last'.result = MsgOK
         /\ last'.target \in DOMAIN occurrences
         /\ Cardinality(StoredFor(last'.target, enrolments)) = CapacityOf(last'.target))
        => (/\ Cardinality(StoredFor(last'.target, enrolments'))
                 = CapacityOf(last'.target) - 1
            /\ UNCHANGED <<events, occurrences>>)]_vars

\* C26 witness: a child has been unenrolled from an occurrence that was full
\* with more than one place, and another child that is not enrolled in the
\* event can enrol while the occurrence is not in the past.
C26_Witness ==
  /\ last.op = "unenrol"
  /\ last.result = MsgOK
  /\ last.target \in DOMAIN occurrences
  /\ CapacityOf(last.target) > 1
  /\ Cardinality(StoredFor(last.target, enrolments)) = CapacityOf(last.target) - 1
  /\ occurrences[last.target].time >= now
  /\ \E child \in Children \ {last.child} :
       ~JoinedEvent(child, occurrences[last.target].event)

\* C27: an Enrol of a child that holds enrolments, none of them in the event
\* of the target occurrence, succeeds when the occurrence is not full and not
\* in the past, and the child keeps the enrolments it held; a successful Enrol
\* is always into an event the child held no enrolment in.
C27_UniquePerEventOnly ==
  [][/\ (/\ Responds("enrol")
         /\ EligibleRequest
         /\ \E en \in enrolments : en.child = last'.child
         /\ ~JoinedEvent(last'.child, occurrences[last'.target].event)
         /\ EnrolmentCount(last'.target) < CapacityOf(last'.target)
         /\ occurrences[last'.target].time >= now)
        => (/\ last'.result = MsgOK
            /\ {en \in enrolments' : en.child = last'.child}
                 = {en \in enrolments : en.child = last'.child} \cup {RequestedRow})
     /\ (Responds("enrol") /\ last'.result = MsgOK)
        => \A en \in enrolments :
             (en.child = last'.child /\ en.occurrence \in DOMAIN occurrences)
               => occurrences[en.occurrence].event # occurrences[last'.target].event]_vars

\* C27 witness: an Enrol has succeeded for a child that is also enrolled in an
\* occurrence of another event.
C27_Witness ==
  /\ last.op = "enrol"
  /\ last.result = MsgOK
  /\ last.target \in DOMAIN occurrences
  /\ [child |-> last.child, occurrence |-> last.target] \in enrolments
  /\ \E en \in enrolments :
       /\ en.child = last.child
       /\ en.occurrence \in DOMAIN occurrences
       /\ occurrences[en.occurrence].event # occurrences[last.target].event

\* the guardian has a child
HasChild(g) == \E c \in Children : g \in GuardiansOf(c)

\* C28: a successful Publish sends one notification of the event to every
\* guardian that has a child and none to a guardian without children, in the
\* step that sets publishedAt; notifications are sent only for an event that
\* is published by then, and a Publish that fails with NOT_FOUND sends none.
C28_DispatchToGuardiansWithChildren ==
  [][/\ (Responds("publish_event") /\ last'.result = MsgOK)
        => (/\ last'.target \in DOMAIN events
            /\ events[last'.target].published_at = None
            /\ events'[last'.target].published_at = Some(now)
            /\ \A x \in DOMAIN notifications :
                 notifications'[x] =
                   IF x[1] = last'.target /\ HasChild(x[2])
                     THEN notifications[x] + 1 ELSE notifications[x])
     /\ \A x \in DOMAIN notifications :
          notifications'[x] # notifications[x]
            => (/\ Responds("publish_event")
                /\ x[1] \in DOMAIN events'
                /\ events'[x[1]].published_at # None)
     /\ (Responds("publish_event") /\ ErrorKind(last'.result) = "NOT_FOUND")
        => notifications' = notifications]_vars

\* C28 witness: an event has been published at a time after the start; each
\* of the two guardians with children has its notification and the guardian
\* without children has none.
C28_Witness ==
  /\ last.op = "publish_event"
  /\ last.result = MsgOK
  /\ now > 0
  /\ events[last.target].published_at = Some(now)
  /\ notifications[<<last.target, "g1">>] = 1
  /\ notifications[<<last.target, "g2">>] = 1
  /\ notifications[<<last.target, "g3">>] = 0

\* the occurrences written by this step: created, or changed
Written == {id \in DOMAIN occurrences' :
              id \notin DOMAIN occurrences \/ occurrences'[id] # occurrences[id]}

\* C29: an AddOccurrence or UpdateOccurrence by staff that names an event or
\* a venue that does not exist fails with NOT_FOUND and leaves the
\* occurrences as they were; every occurrence a step creates or changes
\* belongs to an event and a venue that exist when it is written.
C29_OccurrenceReferencesExist ==
  [][/\ Responds("add_occurrence") =>
          \A time \in Times, event_id \in EventIds, venue_id \in VenueIdInputs :
            (/\ event_id \notin DOMAIN events \/ venue_id \notin VenueIds
             /\ AddOccurrence(Server, "staff", time, event_id, venue_id))
              => (/\ ErrorKind(last'.result) = "NOT_FOUND"
                  /\ UNCHANGED <<occurrences, nextOccurrenceId>>)
     /\ Responds("update_occurrence") =>
          \A id \in DOMAIN occurrences, time \in Opt(Times),
             event_id \in Opt(EventIds), venue_id \in Opt(VenueIdInputs) :
            (/\ \/ event_id # None /\ event_id[1] \notin DOMAIN events
                \/ venue_id # None /\ venue_id[1] \notin VenueIds
             /\ UpdateOccurrence(Server, "staff", id, time, event_id, venue_id))
              => (/\ ErrorKind(last'.result) = "NOT_FOUND"
                  /\ occurrences' = occurrences)
     /\ \A id \in Written :
          /\ occurrences'[id].event \in DOMAIN events'
          /\ occurrences'[id].venue \in VenueIds]_vars

\* C29 witness: an AddOccurrence for an existing event was refused for its
\* venue while an occurrence is stored.
C29_Witness ==
  /\ last.op = "add_occurrence"
  /\ last.result = MsgNoVenue
  /\ DOMAIN events # {}
  /\ DOMAIN occurrences # {}

\* C30: a worker that has started an Enrol or a Publish request returns to
\* idle, its response handed out, whatever the other workers do; Unenrol and
\* every refused request complete in the step that starts them.
C30_RequestsComplete ==
  \A p \in Procs : (proc[p].pc # "idle") ~> (proc[p].pc = "idle" /\ last # NoResponse)

\* C30 witness: an Enrol has succeeded while another worker is in the middle
\* of its own request.
C30_Witness ==
  /\ last.op = "enrol"
  /\ last.result = MsgOK
  /\ \E p \in Procs : proc[p].pc # "idle"

\* the requests that create or remove enrolments
EnrolmentOps == {"enrol", "unenrol", "delete_occurrence", "delete_event"}

\* C31: a step changes the set of enrolments only when it answers an Enrol,
\* Unenrol, DeleteOccurrence or DeleteEvent with success; no step of an
\* AddEvent, UpdateEvent, PublishEvent, AddOccurrence or UpdateOccurrence
\* request creates or removes an enrolment, whatever capacity, time or event
\* it sets.
C31_EnrolmentsFrame ==
  [][/\ enrolments' # enrolments
        => (/\ last = NoResponse
            /\ last'.op \in EnrolmentOps
            /\ last'.result = MsgOK)
     /\ (last = NoResponse /\ last'.op \in StaffOps \ EnrolmentOps)
        => enrolments' = enrolments
     /\ proc[Server].pc = "publish" => enrolments' = enrolments]_vars

\* C31 witness: an UpdateEvent has lowered the capacity of an event below the
\* number of enrolments of one of its occurrences, which are all still
\* stored.
C31_Witness ==
  /\ last.op = "update_event"
  /\ last.result = MsgOK
  /\ \E occ \in DOMAIN occurrences :
       /\ occurrences[occ].event = last.target
       /\ EnrolmentCount(occ) > events[last.target].capacity_per_occurrence

\* C32: an Enrol by the child's guardian into an existing occurrence of an
\* event that is not published succeeds when the child holds no enrolment in
\* the event and the occurrence is not full and not in the past; the
\* enrolment is stored and the event stays unpublished.
C32_EnrolIgnoresPublication ==
  [][(/\ Responds("enrol")
      /\ EligibleRequest
      /\ occurrences[last'.target].event \in DOMAIN events
      /\ events[occurrences[last'.target].event].published_at = None
      /\ ~JoinedEvent(last'.child, occurrences[last'.target].event)
      /\ EnrolmentCount(last'.target) < CapacityOf(last'.target)
      /\ occurrences[last'.target].time >= now)
     => (/\ last'.result = MsgOK
         /\ RequestedRow \in enrolments'
         /\ events' = events)]_vars

\* C32 witness: an Enrol has succeeded for an occurrence of an event that has
\* not been published, while another event is published.
C32_Witness ==
  /\ last.op = "enrol"
  /\ last.result = MsgOK
  /\ last.target \in DOMAIN occurrences
  /\ [child |-> last.child, occurrence |-> last.target] \in enrolments
  /\ events[occurrences[last.target].event].published_at = None
  /\ \E id \in DOMAIN events : events[id].published_at # None
====
